---- MODULE Spec2Model ----
(***************************************************************************)
(* Gym occupancy tracker: the Collector (fetch_gym_data.py) samples a      *)
(* count and appends it to the partition file of the current date, the     *)
(* Reporter (plot_gym_data.py) loads the rows of the trailing window and   *)
(* renders the chart artifact.                                             *)
(*                                                                         *)
(* A datetime is an integer number of seconds since 00:00:00 of date 0; a  *)
(* date is a day number.  A Python value and a CSV text cell are records   *)
(* [k, v]: k names the kind of value or text, v its numeric payload.       *)
(***************************************************************************)
EXTENDS Integers, Sequences, FiniteSets, TLC

VARIABLES now, dirExists, files, chart, savefigs, posts, reports, ticks,
          last, loaded, log, procs

vars == <<now, dirExists, files, chart, savefigs, posts, reports, ticks,
          last, loaded, log, procs>>

----------------------------------------------------------------------------
(* Bounds of the model. *)

MaxTicks == 2
MaxRuns == 2
MaxReports == 2
MaxStoreRows == 2
NumProcs == 2

----------------------------------------------------------------------------
(* The calendar of datetime, and the Reporter's constants. *)

SecPerMin == 60
MinPerHour == 60
HoursPerDay == 24
SecPerHour == SecPerMin * MinPerHour
SecPerDay == SecPerHour * HoursPerDay
MinPerDay == MinPerHour * HoursPerDay

THRESHOLD == 140
HOURS_TO_SHOW == 96

\* timedelta(hours=hours)
timedelta_hours(hours) == hours * SecPerHour

\* timedelta(days=days), on dates
timedelta_days(days) == days

\* datetime.date()
DateOf(t) == t \div SecPerDay

----------------------------------------------------------------------------
(* Python values and CSV text. *)

PyNone == [k |-> "None", v |-> 0]
PyInt(n) == [k |-> "int", v |-> n]
\* a string that is not the decimal text of an integer, e.g. "n/a"
PyStr == [k |-> "str", v |-> 0]
\* the key is not in the JSON object
Absent == [k |-> "absent", v |-> 0]

\* the text "time", "count", "" or some other non-numeric text
Text(s) == [k |-> s, v |-> 0]
\* the decimal text of n
Digits(n) == [k |-> "digits", v |-> n]
\* the text HH:MM of minute m of the day
HHMM(m) == [k |-> "hhmm", v |-> m]
\* the file name YYYY-MM-DD.csv of date d
DateName(d) == [k |-> "date", v |-> d]
\* a .csv file whose stem is no date, e.g. notes.csv
OtherName == [k |-> "other", v |-> 0]

\* str(value), as csv.writer writes a field
Str(value) ==
    IF value.k = "int" THEN Digits(value.v)
    ELSE IF value.k = "None" THEN Text("")
    ELSE Text("junk")

----------------------------------------------------------------------------
(* Collector: fetch_gym_load. *)

Counts == {THRESHOLD - 1, THRESHOLD}

ResponseKinds ==
    {"ConnectionError", "Timeout", "HTTPError", "NotJson", "JsonArray", "JsonObject"}

\* The outcomes of the one POST: a transport failure, a non-2xx status, a body that
\* is not JSON, a JSON array, or a JSON object whose "number" is an integer, a
\* string, null or missing.
Responses ==
    [kind : ResponseKinds \ {"JsonObject"}, number : {Absent}]
    \cup [kind : {"JsonObject"},
          number : {Absent, PyNone, PyStr} \cup {PyInt(n) : n \in Counts}]

\* The exception the try block raises, "none" when it raises none.
Raised(resp) ==
    CASE resp.kind \in {"ConnectionError", "Timeout"} -> resp.kind
      [] resp.kind = "HTTPError" -> "HTTPError"
      [] resp.kind = "NotJson" -> "JSONDecodeError"
      [] resp.kind = "JsonArray" -> "AttributeError"
      [] OTHER -> "none"

\* The classes an exception is an instance of.
ExcClasses(e) ==
    CASE e \in {"ConnectionError", "Timeout", "HTTPError"} -> {e, "RequestException"}
      [] e = "JSONDecodeError" -> {e, "RequestException", "ValueError"}
      [] OTHER -> {e}

Handled == {"RequestException", "ValueError", "KeyError"}

\* data.get("number")
DictGet(resp) == IF resp.number = Absent THEN PyNone ELSE resp.number

\* [exc, ret]: the exception that escapes ("none" when none does) and the value returned.
fetch_gym_load(resp) ==
    LET e == Raised(resp) IN
    IF e = "none" THEN [exc |-> "none", ret |-> DictGet(resp)]
    ELSE IF ExcClasses(e) \cap Handled # {} THEN [exc |-> "none", ret |-> PyNone]
    ELSE [exc |-> e, ret |-> PyNone]

----------------------------------------------------------------------------
(* Collector: save_to_csv. *)

\* now.strftime("%Y-%m-%d"), as the partition's file name
csv_path(t) == DateName(DateOf(t))

\* now.strftime("%H:%M")
time_str(t) == HHMM((t % SecPerDay) \div SecPerMin)

HeaderRow == <<Text("time"), Text("count")>>

DataRow(t, count) == <<time_str(t), Str(count)>>

\* the header written on every call
WriteHeaderAlways(file_exists) == TRUE

\* if not file_exists
WriteHeader(file_exists) == ~file_exists

\* what the csv.writer writes before the file is closed
WrittenRows(file_exists, t, count) ==
    (IF WriteHeader(file_exists) THEN <<HeaderRow>> ELSE <<>>) \o <<DataRow(t, count)>>

\* open(csv_path, "a") and the writes: the rows are appended to the file's content
AppendRows(fs, p, rows) ==
    [q \in DOMAIN fs \cup {p} |->
        IF q = p THEN (IF p \in DOMAIN fs THEN fs[p] ELSE <<>>) \o rows ELSE fs[q]]

save_to_csv(fs, t, count) ==
    AppendRows(fs, csv_path(t), WrittenRows(csv_path(t) \in DOMAIN fs, t, count))

----------------------------------------------------------------------------
(* Reporter: load_data. *)

\* the paths in descending order
NameAfter(a, b) ==
    \/ a.k = "other" /\ b.k = "date"
    \/ a.k = b.k /\ a.v > b.v

\* the order of sorted() on the paths: dates in date order, before any other name
NameBefore(a, b) ==
    \/ a.k = "date" /\ b.k = "other"
    \/ a.k = b.k /\ a.v < b.v

RECURSIVE SortedNames(_)
SortedNames(S) ==
    IF S = {} THEN <<>>
    ELSE LET first == CHOOSE a \in S : \A b \in S \ {a} : NameBefore(a, b)
         IN <<first>> \o SortedNames(S \ {first})

\* sorted(DATA_DIR.glob("*.csv"))
csv_files(fs) == SortedNames(DOMAIN fs)

\* the day added instead of subtracted
SkipFilePlusDay(file_date, cutoff) == file_date < DateOf(cutoff) + timedelta_days(1)

\* if file_date < cutoff.date() - timedelta(days=1): continue
SkipFile(file_date, cutoff) == file_date < DateOf(cutoff) - timedelta_days(1)

\* a strict lower end of the window
InWindowStrict(dt, cutoff) == dt > cutoff

\* if dt >= cutoff
InWindow(dt, cutoff) == dt >= cutoff

\* row[key] of the dict a DictReader makes of a row: the last field of that name;
\* None when the row is too short to reach it; KeyError when no field has the name
RowGet(fieldnames, row, key) ==
    LET idx == {i \in 1..Len(fieldnames) : fieldnames[i] = Text(key)} IN
    IF idx = {} THEN Text("KeyError")
    ELSE LET i == CHOOSE j \in idx : \A j2 \in idx : j2 <= j
         IN IF i <= Len(row) THEN row[i] ELSE PyNone

\* The body of the loop over the rows: "keep", "drop" (outside the window), "skip"
\* (ValueError or KeyError, caught) or "TypeError" (int(None), not caught).
RowOutcome(fieldnames, row, file_date, cutoff) ==
    LET t == RowGet(fieldnames, row, "time")
        c == RowGet(fieldnames, row, "count")
    IN  IF t = Text("KeyError") THEN "skip"
        ELSE IF c = Text("KeyError") THEN "skip"
        ELSE IF c = PyNone THEN "TypeError"
        ELSE IF c.k # "digits" THEN "skip"
        ELSE IF ~(t.k = "hhmm" /\ t.v < MinPerDay) THEN "skip"
        ELSE IF InWindow(file_date * SecPerDay + t.v * SecPerMin, cutoff) THEN "keep"
        ELSE "drop"

RowTime(fieldnames, row, file_date) ==
    file_date * SecPerDay + RowGet(fieldnames, row, "time").v * SecPerMin

RowCount(fieldnames, row) == RowGet(fieldnames, row, "count").v

\* for row in reader, from row i of the file: DictReader skips the blank rows
RECURSIVE ReadRows(_, _, _, _, _, _)
ReadRows(fieldnames, rows, i, file_date, cutoff, acc) ==
    IF i > Len(rows) THEN acc
    ELSE IF rows[i] = <<>> THEN ReadRows(fieldnames, rows, i + 1, file_date, cutoff, acc)
    ELSE LET o == RowOutcome(fieldnames, rows[i], file_date, cutoff) IN
         IF o = "TypeError" THEN [acc EXCEPT !.exc = "TypeError"]
         ELSE IF o = "keep"
         THEN ReadRows(fieldnames, rows, i + 1, file_date, cutoff,
                       [acc EXCEPT !.timestamps = Append(@, RowTime(fieldnames, rows[i], file_date)),
                                   !.counts = Append(@, RowCount(fieldnames, rows[i]))])
         ELSE ReadRows(fieldnames, rows, i + 1, file_date, cutoff, acc)

\* for csv_path in csv_files, from file i
RECURSIVE ReadFiles(_, _, _, _, _)
ReadFiles(fs, names, i, cutoff, acc) ==
    IF i > Len(names) \/ acc.exc # "none" THEN acc
    ELSE IF names[i].k # "date" THEN ReadFiles(fs, names, i + 1, cutoff, acc)
    ELSE IF SkipFile(names[i].v, cutoff) THEN ReadFiles(fs, names, i + 1, cutoff, acc)
    ELSE IF fs[names[i]] = <<>> THEN ReadFiles(fs, names, i + 1, cutoff, acc)
    ELSE ReadFiles(fs, names, i + 1, cutoff,
                   ReadRows(fs[names[i]][1], fs[names[i]], 2, names[i].v, cutoff, acc))

NoSeries == [exc |-> "none", timestamps |-> <<>>, counts |-> <<>>]

\* [exc, timestamps, counts]: the exception that escapes ("none" when none does)
\* and the two lists returned
load_data(fs, t, hours) ==
    ReadFiles(fs, csv_files(fs), 1, t - timedelta_hours(hours), NoSeries)

----------------------------------------------------------------------------
(* Reporter: plot_chart. *)

NoChart == [timestamps |-> <<>>, counts |-> <<>>, colors |-> <<>>]

\* "#e74c3c" if c >= THRESHOLD else "#2ecc71"
Color(c) == IF c >= THRESHOLD THEN "#e74c3c" ELSE "#2ecc71"

\* the empty series plotted like any other
PlotSkipsNever(timestamps) == FALSE

\* if not timestamps: print("No data to plot"); return
PlotSkips(timestamps) == timestamps = <<>>

\* the content of OUTPUT_FILE after plot_chart
plot_chart(old, timestamps, counts) ==
    IF PlotSkips(timestamps) THEN old
    ELSE [timestamps |-> timestamps, counts |-> counts,
          colors |-> [i \in 1..Len(counts) |-> Color(counts[i])]]

----------------------------------------------------------------------------
(* The invocations, one at a time, under a wall clock that only advances. *)

NoResp == [kind |-> "none", number |-> Absent]

\* What the invocation that made the last step did: its response and what
\* fetch_gym_load made of it, whether the partition existed, the clock it read.
NoLast(op) ==
    [op |-> op, resp |-> NoResp, exc |-> "none", ret |-> PyNone,
     file_exists |-> FALSE, dir_existed |-> FALSE, at |-> 0, hours |-> 0]

NoProcs == <<>>

\* 23:59:00 of date 0
StartTimes == {SecPerDay - SecPerMin}

ClockSteps == {30, SecPerMin, SecPerDay, timedelta_hours(HOURS_TO_SHOW)}

Init ==
    /\ now \in StartTimes
    /\ dirExists \in BOOLEAN
    /\ files = <<>>
    /\ chart = NoChart
    /\ savefigs = 0
    /\ posts = 0
    /\ reports = 0
    /\ ticks = 0
    /\ last = NoLast("init")
    /\ loaded = NoSeries
    /\ log = <<>>
    /\ procs = NoProcs

\* the wall clock advances
Tick(d) ==
    /\ ticks < MaxTicks
    /\ now' = now + d
    /\ ticks' = ticks + 1
    /\ last' = NoLast("tick")
    /\ loaded' = NoSeries
    /\ UNCHANGED <<dirExists, files, chart, savefigs, posts, reports, log, procs>>

\* the reading recorded whatever fetch returned
ObtainedAlways(r) == TRUE

\* if count is not None
Obtained(r) == r.ret # PyNone

\* fetch_gym_data.main(), the endpoint answering resp
CollectorMain(resp) ==
    LET r == fetch_gym_load(resp)
        saves == r.exc = "none" /\ Obtained(r)
    IN  /\ posts < MaxRuns
        /\ posts' = posts + 1
        /\ dirExists' = (dirExists \/ saves)
        /\ files' = IF saves THEN save_to_csv(files, now, r.ret) ELSE files
        /\ log' = IF saves THEN Append(log, [at |-> now, count |-> r.ret]) ELSE log
        /\ last' = [op |-> "collect", resp |-> resp, exc |-> r.exc, ret |-> r.ret,
                    file_exists |-> csv_path(now) \in DOMAIN files,
                    dir_existed |-> dirExists, at |-> now, hours |-> 0]
        /\ loaded' = NoSeries
        /\ UNCHANGED <<now, chart, savefigs, reports, ticks, procs>>

\* plot_gym_data.main()
ReporterMain ==
    LET r == IF dirExists THEN load_data(files, now, HOURS_TO_SHOW) ELSE NoSeries
        plots == dirExists /\ r.exc = "none"
    IN  /\ reports < MaxReports
        /\ reports' = reports + 1
        /\ loaded' = r
        /\ chart' = IF plots THEN plot_chart(chart, r.timestamps, r.counts) ELSE chart
        /\ savefigs' = IF plots /\ ~PlotSkips(r.timestamps) THEN savefigs + 1 ELSE savefigs
        /\ last' = [NoLast("report") EXCEPT !.exc = r.exc, !.dir_existed = dirExists,
                                            !.at = now, !.hours = HOURS_TO_SHOW]
        /\ UNCHANGED <<now, dirExists, files, posts, ticks, log, procs>>

Windows == {0, 24, HOURS_TO_SHOW}

\* load_data(hours)
LoadData(hours) ==
    LET r == load_data(files, now, hours) IN
    /\ loaded' = r
    /\ last' = [NoLast("load") EXCEPT !.exc = r.exc, !.dir_existed = dirExists,
                                      !.at = now, !.hours = hours]
    /\ UNCHANGED <<now, dirExists, files, chart, savefigs, posts, reports, ticks, log, procs>>

Next ==
    \/ \E d \in ClockSteps : Tick(d)
    \/ \E resp \in Responses : CollectorMain(resp)
    \/ ReporterMain

Spec == Init /\ [][Next]_vars

\* the Collector's invocations and calls of load_data with any window
NextTrip ==
    \/ \E d \in ClockSteps : Tick(d)
    \/ \E resp \in Responses : CollectorMain(resp)
    \/ \E hours \in Windows : LoadData(hours)

SpecTrip == Init /\ [][NextTrip]_vars

----------------------------------------------------------------------------
(* The Reporter on any store: the partitions are files the Reporter only    *)
(* reads, whatever wrote them (a Collector under a clock that was set back, *)
(* a run cut short in its last line, an editor).                            *)

StoreDates == 0..3

StoreNames == {DateName(d) : d \in StoreDates} \cup {OtherName}

\* 00:00:00 and 12:00:30 of date 2
StoreNows == {2 * SecPerDay, 2 * SecPerDay + 12 * SecPerHour + 30}

\* 00:00 and 23:59
WellFormedRows ==
    {<<HHMM(0), Digits(THRESHOLD - 1)>>, <<HHMM(MinPerDay - 1), Digits(THRESHOLD)>>}

\* a count that is no integer, a time that is no time, a line cut before its comma,
\* and a line cut after it
MalformedRows ==
    {<<HHMM(0), Text("junk")>>, <<Text("junk"), Digits(THRESHOLD)>>,
     <<HHMM(0)>>, <<HHMM(0), Text("")>>}

StoreRows == WellFormedRows \cup MalformedRows

\* the store with one more row in file p, which starts with the header
PutRow(fs, p, row) ==
    AppendRows(fs, p, IF p \in DOMAIN fs THEN <<row>> ELSE <<HeaderRow, row>>)

\* the stores of at most n rows
RECURSIVE StoresUpTo(_)
StoresUpTo(n) ==
    IF n = 0 THEN {<<>>}
    ELSE LET S == StoresUpTo(n - 1)
         IN S \cup {PutRow(fs, p, row) : fs \in S, p \in StoreNames, row \in StoreRows}

InitStore ==
    /\ now \in StoreNows
    /\ dirExists = TRUE
    /\ files \in StoresUpTo(MaxStoreRows)
    /\ chart = NoChart
    /\ savefigs = 0
    /\ posts = 0
    /\ reports = 0
    /\ ticks = 0
    /\ last = NoLast("init")
    /\ loaded = NoSeries
    /\ log = <<>>
    /\ procs = NoProcs

NextStore ==
    \/ \E hours \in Windows : LoadData(hours)
    \/ ReporterMain

SpecStore == InitStore /\ [][NextStore]_vars

----------------------------------------------------------------------------
(* Collector runs that overlap: each run of save_to_csv is a process that    *)
(* takes the steps of its lines one at a time.  The file object buffers what *)
(* the csv.writer writes, and the buffer reaches the file, in one append,    *)
(* when the with block closes it.                                            *)

Procs == 1..NumProcs

InitRace ==
    /\ now \in StartTimes
    /\ dirExists \in BOOLEAN
    /\ files = <<>>
    /\ chart = NoChart
    /\ savefigs = 0
    /\ posts = 0
    /\ reports = 0
    /\ ticks = 0
    /\ last = NoLast("init")
    /\ loaded = NoSeries
    /\ log = <<>>
    /\ \E c \in [Procs -> {PyInt(n) : n \in Counts}] :
          procs = [p \in Procs |->
                      [pc |-> "mkdir", count |-> c[p], t |-> 0, file_exists |-> FALSE,
                       buf |-> <<>>]]

Shared == <<chart, savefigs, posts, reports, ticks, last, loaded, log>>

\* DATA_DIR.mkdir(exist_ok=True)
SaveMkdir(p) ==
    /\ procs[p].pc = "mkdir"
    /\ dirExists' = TRUE
    /\ procs' = [procs EXCEPT ![p].pc = "clock"]
    /\ UNCHANGED <<now, files, Shared>>

\* now = datetime.now()
SaveClock(p) ==
    /\ procs[p].pc = "clock"
    /\ procs' = [procs EXCEPT ![p].pc = "exists", ![p].t = now]
    /\ UNCHANGED <<now, dirExists, files, Shared>>

\* file_exists = csv_path.exists()
SaveExists(p) ==
    /\ procs[p].pc = "exists"
    /\ procs' = [procs EXCEPT ![p].pc = "open",
                              ![p].file_exists = csv_path(procs[p].t) \in DOMAIN files]
    /\ UNCHANGED <<now, dirExists, files, Shared>>

\* open(csv_path, "a", newline=""): the file is created, empty, when it is absent
SaveOpen(p) ==
    /\ procs[p].pc = "open"
    /\ files' = AppendRows(files, csv_path(procs[p].t), <<>>)
    /\ procs' = [procs EXCEPT ![p].pc = "write"]
    /\ UNCHANGED <<now, dirExists, Shared>>

\* the writerow calls, into the buffer of the file object
SaveWrite(p) ==
    /\ procs[p].pc = "write"
    /\ procs' = [procs EXCEPT ![p].pc = "close",
                              ![p].buf = WrittenRows(procs[p].file_exists, procs[p].t,
                                                     procs[p].count)]
    /\ UNCHANGED <<now, dirExists, files, Shared>>

\* the end of the with block: the buffer is appended to the file
SaveClose(p) ==
    /\ procs[p].pc = "close"
    /\ files' = AppendRows(files, csv_path(procs[p].t), procs[p].buf)
    /\ procs' = [procs EXCEPT ![p].pc = "done", ![p].buf = <<>>]
    /\ UNCHANGED <<now, dirExists, Shared>>

\* the wall clock advances while the runs overlap
RaceTick(d) ==
    /\ ticks < MaxTicks
    /\ now' = now + d
    /\ ticks' = ticks + 1
    /\ UNCHANGED <<dirExists, files, chart, savefigs, posts, reports, last, loaded, log, procs>>

NextRace ==
    \/ \E p \in Procs : SaveMkdir(p)
    \/ \E p \in Procs : SaveClock(p)
    \/ \E p \in Procs : SaveExists(p)
    \/ \E p \in Procs : SaveOpen(p)
    \/ \E p \in Procs : SaveWrite(p)
    \/ \E p \in Procs : SaveClose(p)
    \/ \E d \in ClockSteps : RaceTick(d)

SpecRace == InitRace /\ [][NextRace]_vars

----------------------------------------------------------------------------
(* Properties of the invocations run one at a time (Spec, SpecTrip). *)

\* the last step was a load of the store, by load_data or by the Reporter
Loaded == last.op \in {"load", "report"} /\ last.dir_existed

\* now - window of that load
Cutoff == now - last.hours * SecPerHour

\* the rows the log says were saved to the partition of date d, oldest first
RECURSIVE SavedOn(_, _)
SavedOn(entries, d) ==
    IF entries = <<>> THEN <<>>
    ELSE (IF DateOf(Head(entries).at) = d
          THEN <<DataRow(Head(entries).at, Head(entries).count)>> ELSE <<>>)
         \o SavedOn(Tail(entries), d)

\* C1: after any sequence of save_to_csv calls on partitions that were absent at
\* first, every partition is one header line, its first, followed by one data line
\* per call made on its date, in the order of the calls.
C1_OneHeaderThenRows ==
    /\ \A i \in 1..Len(log) : csv_path(log[i].at) \in DOMAIN files
    /\ \A p \in DOMAIN files :
          LET rows == SavedOn(log, p.v) IN
          /\ Len(files[p]) = 1 + Len(rows)
          /\ files[p][1] = HeaderRow
          /\ \A i \in 1..Len(rows) : files[p][i + 1] = rows[i] /\ files[p][i + 1] # HeaderRow

\* C1 witness: two writes to a new partition gave a header and two data lines.
C1_Witness ==
    \E p \in DOMAIN files : Len(files[p]) = 3 /\ Len(SavedOn(log, p.v)) = 2

\* the timestamp of a reading, truncated to the minute
Trunc(t) == t - (t % SecPerMin)

InSeries(ts, c) ==
    \E j \in 1..Len(loaded.timestamps) : loaded.timestamps[j] = ts /\ loaded.counts[j] = c

\* C2: a reading written by save_to_csv is in the series of a later load_data
\* exactly when its minute-truncated timestamp is not earlier than now - window.
C2_RoundTrip ==
    Loaded =>
        /\ loaded.exc = "none"
        /\ \A i \in 1..Len(log) :
              log[i].count.k = "int" =>
                  (InSeries(Trunc(log[i].at), log[i].count.v) <=> Trunc(log[i].at) >= Cutoff)

\* C2 witness: a reading at now - window exactly is in the series, and a reading
\* one minute earlier is not.
C2_Witness ==
    /\ Loaded /\ last.hours = HOURS_TO_SHOW
    /\ \E i, j \in 1..Len(log) :
          /\ log[i].count.k = "int" /\ log[j].count.k = "int"
          /\ Trunc(log[i].at) = Cutoff
          /\ InSeries(Trunc(log[i].at), log[i].count.v)
          /\ Trunc(log[j].at) = Cutoff - SecPerMin
          /\ ~InSeries(Trunc(log[j].at), log[j].count.v)

\* C3: for every response, fetch_gym_load returns the integer of the "number"
\* field of a JSON object, or no value, and no exception escapes it.
C3_FetchIntegerOrNone ==
    last.op = "collect" =>
        /\ last.exc = "none"
        /\ IF last.resp.kind = "JsonObject" /\ last.resp.number.k = "int"
           THEN last.ret = last.resp.number
           ELSE last.ret = PyNone

\* C5: the timestamps load_data returns are in nondecreasing order.
C5_SeriesNondecreasing ==
    Loaded =>
        \A i, j \in 1..Len(loaded.timestamps) :
            i < j => loaded.timestamps[i] <= loaded.timestamps[j]

\* C5 witness: a series that spans two partitions.
C5_Witness ==
    /\ Loaded
    /\ \E i, j \in 1..Len(loaded.timestamps) :
          DateOf(loaded.timestamps[i]) < DateOf(loaded.timestamps[j])

\* C6: a Collector invocation posts once; with no reading it leaves the store as
\* it is; with a reading it appends one data row to the partition of the current
\* date, after a header when the partition is new, and keeps what every partition
\* held as a prefix.
C6_CollectorFrame ==
    [][posts' # posts =>
        LET got == last'.exc = "none" /\ last'.ret # PyNone
            p == DateName(now \div SecPerDay)
            old == IF p \in DOMAIN files THEN files[p] ELSE <<>>
        IN  /\ posts' = posts + 1
            /\ ~got => files' = files /\ dirExists' = dirExists
            /\ got =>
                /\ dirExists'
                /\ DOMAIN files' = DOMAIN files \cup {p}
                /\ \A q \in DOMAIN files \ {p} : files'[q] = files[q]
                /\ Len(files'[p]) = Len(old) + (IF p \in DOMAIN files THEN 1 ELSE 2)
                /\ SubSeq(files'[p], 1, Len(old)) = old
                /\ p \notin DOMAIN files => files'[p][1] = HeaderRow
                /\ files'[p][Len(files'[p])][1].k = "hhmm"
    ]_vars

\* C6 witness: a reading was appended to a partition that existed.
C6_Witness ==
    last.op = "collect" /\ last.exc = "none" /\ last.ret # PyNone /\ last.file_exists

\* C7: a Reporter run leaves the partitions as they are, and leaves the artifact
\* unwritten when the store directory is missing or the loaded series is empty.
C7_ReporterFrame ==
    [][reports' # reports =>
        /\ files' = files /\ dirExists' = dirExists
        /\ (~dirExists \/ (loaded'.exc = "none" /\ loaded'.timestamps = <<>>)) =>
              chart' = chart /\ savefigs' = savefigs /\ last'.exc = "none"
        /\ savefigs' # savefigs => dirExists /\ loaded'.timestamps # <<>>
    ]_vars

\* C7 witness: a run found partitions but no row inside the window, and left the
\* artifact of an earlier run as it was.
C7_Witness ==
    /\ last.op = "report" /\ last.dir_existed /\ loaded.timestamps = <<>>
    /\ DOMAIN files # {} /\ chart # NoChart /\ savefigs = 1 /\ reports = 2

----------------------------------------------------------------------------
(* Properties of the Reporter on any store (SpecStore). *)

WellFormed(row) ==
    /\ Len(row) >= 2
    /\ row[1].k = "hhmm" /\ row[1].v < MinPerDay
    /\ row[2].k = "digits"

\* the rows of a partition from row i on that are well-formed and not earlier
\* than cutoff, as [at, count]
RECURSIVE RowsSince(_, _, _, _)
RowsSince(rows, i, d, cutoff) ==
    IF i > Len(rows) THEN <<>>
    ELSE (IF WellFormed(rows[i]) /\ d * SecPerDay + rows[i][1].v * SecPerMin >= cutoff
          THEN <<[at |-> d * SecPerDay + rows[i][1].v * SecPerMin, count |-> rows[i][2].v]>>
          ELSE <<>>)
         \o RowsSince(rows, i + 1, d, cutoff)

\* the same over every partition from date d on, in date order, none skipped
RECURSIVE StoreSince(_, _, _)
StoreSince(fs, d, cutoff) ==
    IF \A p \in DOMAIN fs : p.k # "date" \/ p.v < d THEN <<>>
    ELSE (IF DateName(d) \in DOMAIN fs THEN RowsSince(fs[DateName(d)], 2, d, cutoff) ELSE <<>>)
         \o StoreSince(fs, d + 1, cutoff)

Expected(cutoff) == StoreSince(files, 0, cutoff)

HeadersFirst == \A p \in DOMAIN files : files[p] # <<>> /\ files[p][1] = HeaderRow

SeriesIsExpected ==
    /\ Len(loaded.timestamps) = Len(Expected(Cutoff))
    /\ Len(loaded.counts) = Len(Expected(Cutoff))
    /\ \A i \in 1..Len(Expected(Cutoff)) :
          /\ loaded.timestamps[i] = Expected(Cutoff)[i].at
          /\ loaded.counts[i] = Expected(Cutoff)[i].count

\* C4: whatever mix of well-formed and malformed rows follows the headers,
\* load_data completes and returns exactly the well-formed rows of the window.
C4_MalformedRowsSkipped ==
    Loaded /\ HeadersFirst => loaded.exc = "none" /\ SeriesIsExpected

\* C8: no timestamp load_data returns is later than now.
C8_NothingAfterNow ==
    Loaded /\ loaded.exc = "none" =>
        \A i \in 1..Len(loaded.timestamps) : loaded.timestamps[i] <= now

AllWellFormed ==
    /\ HeadersFirst
    /\ \A p \in DOMAIN files : \A i \in 2..Len(files[p]) : files[p][i] \in WellFormedRows

\* C10: on a store whose rows are all well-formed, load_data returns what a load
\* of every partition under the per-row test alone returns, and no partition it
\* skips holds a row of the window.
C10_PrefilterChangesNothing ==
    Loaded /\ AllWellFormed =>
        /\ loaded.exc = "none"
        /\ SeriesIsExpected
        /\ \A p \in DOMAIN files :
              p.k = "date" /\ SkipFile(p.v, Cutoff) => RowsSince(files[p], 2, p.v, Cutoff) = <<>>

\* C10 witness: a load that skipped a partition holding a row and kept a row of
\* another.
C10_Witness ==
    /\ Loaded /\ AllWellFormed /\ loaded.timestamps # <<>>
    /\ \E p \in DOMAIN files : p.k = "date" /\ SkipFile(p.v, Cutoff) /\ Len(files[p]) > 1

----------------------------------------------------------------------------
(* Properties of overlapping Collector runs (SpecRace). *)

AllDone == \A p \in Procs : procs[p].pc = "done"

HeaderLines(rows) == {i \in 1..Len(rows) : rows[i] = HeaderRow}

\* C9: when the overlapping runs have ended, every partition has exactly one
\* header line, its first line, and one data line per run that wrote to it.
C9_OneHeaderWhateverTheInterleaving ==
    AllDone =>
        \A f \in DOMAIN files :
            /\ HeaderLines(files[f]) = {1}
            /\ Len(files[f]) = 1 + Cardinality({p \in Procs : csv_path(procs[p].t) = f})

====
